---- MODULE Spec2Model ----
(***************************************************************************)
(* Model of the MySQL user-migration tool: UserMigrator (migrate.js) and   *)
(* UserRemover (remove-user, in its configured-bindings and schema-scan    *)
(* versions), run against one MySQL schema through a mysql2 pool.          *)
(*                                                                         *)
(* The data store is abstracted to reference counts: refs[col][id] is the  *)
(* number of rows of binding col = <<table, column>> whose column holds    *)
(* id, and users is the set of ids that have a row in the entity table.    *)
(* Every awaited statement may fail (a QueryError), chosen with \E.        *)
(***************************************************************************)
EXTENDS Integers, Sequences, FiniteSets, TLC

(* ---------------------------- bounds ----------------------------------- *)
MaxRows == 2
MaxTargetRows == 1
MaxRuns == 2
MaxOtherWrites == 1
MaxBindings == 2

(* ------------------------- configuration ------------------------------- *)
sourceUserId == 41
targetUserId == 358
Ids == {sourceUserId, targetUserId}

\* the tables, and per table the columns LIKE '%user_id%' a schema may hold,
\* as findTablesWithUserId lists them: ORDER BY TABLE_NAME, COLUMN_NAME
Tables == <<"content", "media">>
TableSet == {Tables[i] : i \in 1..Len(Tables)}
SchemaColumns == [content |-> <<"user_id">>, media |-> <<"editor_user_id", "user_id">>]

\* config/tables.js MIGRATION_TABLES
MIGRATION_TABLES == << <<"content", "user_id">>, <<"media", "user_id">> >>

Cols == UNION {{<<t, SchemaColumns[t][j]>> : j \in 1..Len(SchemaColumns[t])} : t \in TableSet}

NoColumn == "none"

\* columns.find(col => col.column === 'user_id' || col.column === 'usuario_id'
\*                     || col.column.endsWith('_user_id'))
IsUserIdColumn(c) == c \in {"user_id", "usuario_id", "editor_user_id"}

RECURSIVE FindFrom(_, _)
FindFrom(cs, j) ==
    IF j > Len(cs) THEN NoColumn
    ELSE IF IsUserIdColumn(cs[j]) THEN cs[j] ELSE FindFrom(cs, j + 1)

\* the bindings the configured remover checks
CfgBindings == {MIGRATION_TABLES[i] : i \in 1..Len(MIGRATION_TABLES)}

CfgTableSet == {MIGRATION_TABLES[i][1] : i \in 1..Len(MIGRATION_TABLES)}

\* the schema in which exactly the configured tables and columns exist
FullSchema == [tables |-> CfgTableSet, columns |-> CfgBindings]

\* the schema in which a table holds more than one column LIKE '%user_id%'
WideSchema == [tables |-> TableSet, columns |-> Cols]

\* the schemas: a column exists only in a table that exists
Schemas == {sch \in [tables : SUBSET CfgTableSet, columns : SUBSET CfgBindings] :
               \A b \in sch.columns : b[1] \in sch.tables}

(* ----------------------------- state ----------------------------------- *)
VARIABLES
    refs,          \* data store: [Cols -> [Ids -> Nat]]
    users,         \* data store: ids with a row in the entity table
    undo,          \* writes made inside the open transaction of the run's connection
    dryRun,        \* DRY_RUN === 'true'
    variant,       \* which UserRemover: "config" (MIGRATION_TABLES) or "scan"
    target,        \* TARGET_USER_ID as configured
    schema,        \* the tables and columns that exist in INFORMATION_SCHEMA
    bindings,      \* the binding list config/tables.js supplies (getMigrationTables())
    validation,    \* validateMigrationTables: what it reported, whether it raised
    run,           \* "none", "migration", "removal"
    runs,          \* number of runs started
    pc,            \* position of the current run
    recordCounts,  \* analyzer.countRecordsByTable result: table -> count
    idx,           \* executeMigration loop position in Tables
    recordCount,   \* migrateTable local
    results,       \* migrationResults: table -> result | NoResult
    totalMigrated,
    verification,  \* verifyMigration: totalSourceRemaining, or -1 before it ran
    conn,          \* "none", "held", "released"
    tx,            \* "none", "open", "committed", "rolledback"
    err,           \* the error being thrown, "none" if none
    log,           \* migrationLog / removalLog: sequence of levels
    saves,         \* calls of saveMigrationLog / saveRemovalLog in this run
    outcome,       \* how run() settled: "none", "success", "error"
    safety,        \* verifySafeToRemove result
    backup,        \* snapshot files written in this run: set of ids
    removal,       \* removeUserRecord result
    rverify,       \* verifyRemoval result
    hist,          \* history of the current run (for stating the properties)
    cli,           \* MigrationCLI.executeCompleteProcess: position and the steps run
    dump,          \* DatabaseExporter.executeMysqldump: child processes and the promise
    tester         \* MigrationTester: position, testResults, what runAllTests returned

dbVars == <<refs, users, undo>>
cfgVars == <<dryRun, variant, target, schema, bindings>>
toolVars == <<cli, dump, tester>>
anaVars == <<validation>>
migVars == <<recordCounts, idx, recordCount, results, totalMigrated, verification>>
remVars == <<safety, backup, removal, rverify>>
connVars == <<conn, tx>>
vars == <<refs, users, undo, dryRun, variant, target, schema, bindings, validation, run, runs, pc, recordCounts, idx,
          recordCount, results, totalMigrated, verification, conn, tx, err, log,
          saves, outcome, safety, backup, removal, rverify, hist, cli, dump, tester>>

\* findTablesWithUserId: tableMap[t], the columns of t found in the schema
TableMap(t) == SelectSeq(SchemaColumns[t], LAMBDA c : <<t, c>> \in schema.columns)

\* columns.find(...) over tableMap[t]
UserIdColumn(t) == FindFrom(TableMap(t), 1)

\* the bindings a migration run operates over: table -> first matching column
MigBindings == {<<t, UserIdColumn(t)>> : t \in {u \in TableSet : UserIdColumn(u) # NoColumn}}

\* the columns findTablesWithUserId returns
Discovered == Cols \cap schema.columns

NoResult == [migrated |-> -1, skipped |-> -1]
NoSafety == [isSafe |-> FALSE, totalReferences |-> -1, failed |-> {}]
NoRemoval == [removed |-> FALSE, simulated |-> FALSE, affectedRows |-> -1]
NoVerify == [success |-> FALSE, ran |-> FALSE]
NoEntry == [tableExists |-> FALSE, columnExists |-> FALSE, valid |-> FALSE]
NoLookup == [t \in CfgTableSet |-> FALSE]
NoValidation == [ran |-> FALSE, raised |-> FALSE,
                 tableValidation |-> NoLookup, columnValidation |-> NoLookup,
                 results |-> [t \in CfgTableSet |-> NoEntry]]

\* executeMysqldump not called yet: no child process, no promise
NoDump == [pc |-> "idle", compressed |-> FALSE, mysqldump |-> "none", code |-> -1,
           gzip |-> "none", promise |-> "none"]
\* runAllTests has not returned
NoReturn == [success |-> FALSE, passedTests |-> -1, totalTests |-> -1]

\* history of one run: what it found at its start and what it did
NewHist(r, u, p) ==
    [preRefs |-> r, preUsers |-> u, prev |-> p, stmts |-> <<>>, failed |-> {},
     begins |-> 0, commits |-> 0, rollbacks |-> 0, releases |-> 0,
     execReturned |-> FALSE, safetyRefs |-> -1, others |-> 0, absent |-> {},
     backupSaw |-> "unseen", issued |-> <<>>]

Note(h, f) == [h EXCEPT !.failed = @ \cup {f}]

\* a log call that drops the entries made before it
KeptEntries_Dropped(l) == <<>>

\* log(): this.migrationLog.push(logEntry) / this.removalLog.push(logEntry)
\* keeps the entries already made
KeptEntries(l) == l

\* log(): the levels the callers pass
Levels == {"info", "warning", "success", "error"}

IsPrefix(a, b) == Len(a) <= Len(b) /\ SubSeq(b, 1, Len(a)) = a

\* the statements migrateTable issued so far, in order
Issue(h, t, kinds) ==
    [h EXCEPT !.issued = @ \o [i \in 1..Len(kinds) |-> [table |-> t, kind |-> kinds[i]]]]

(* -------------------------- data store --------------------------------- *)
\* SELECT COUNT(*) FROM table WHERE column = ?
CountRows(r, col, id) == r[col][id]

\* a counting query taken to clear the rows it counts
AfterCount_Clearing(r) == [c \in DOMAIN r |-> [r[c] EXCEPT ![sourceUserId] = 0]]

\* the rows after SELECT COUNT(*) FROM table WHERE column = ?: as they were
AfterCount(r) == r

\* UPDATE table SET column = target WHERE column = source
UpdateRows(r, col, tgt) ==
    IF tgt = sourceUserId THEN r
    ELSE [r EXCEPT ![col] = [@ EXCEPT ![sourceUserId] = 0,
                                      ![tgt] = @ + r[col][sourceUserId]]]

\* pool.execute runs each statement on a pool connection of its own (autocommit),
\* never on the connection the run obtained with getConnection()
StmtChannel == "pool"

InTx(t) == StmtChannel = "conn" /\ t = "open"

RECURSIVE Rollback(_, _)
\* ROLLBACK: undoes the UPDATEs made inside the connection's transaction
Rollback(r, w) ==
    IF w = <<>> THEN r
    ELSE IF w[Len(w)].op # "UPDATE" \/ w[Len(w)].id = sourceUserId
    THEN Rollback(r, SubSeq(w, 1, Len(w) - 1))
    ELSE Rollback([r EXCEPT ![w[Len(w)].col] =
                        [@ EXCEPT ![sourceUserId] = @ + w[Len(w)].n,
                                  ![w[Len(w)].id] = @ - w[Len(w)].n]],
                  SubSeq(w, 1, Len(w) - 1))

\* ROLLBACK: undoes the DELETEs made inside the connection's transaction
RollbackUsers(u, w) ==
    u \cup {w[i].id : i \in {j \in 1..Len(w) : w[j].op = "DELETE"}}

NoCol == <<"none", "none">>
UndoUpdate(col, n, tgt) == [op |-> "UPDATE", col |-> col, n |-> n, id |-> tgt]
UndoDelete(id) == [op |-> "DELETE", col |-> NoCol, n |-> 0, id |-> id]

(* ----------------------------- Init ------------------------------------ *)
\* the state after construction, whatever the configuration and the schema
Constructed ==
    /\ refs \in [Cols -> [Ids -> 0..MaxRows]]
    /\ \A c \in Cols : refs[c][targetUserId] <= MaxTargetRows
    /\ \A c \in Cols \ schema.columns : \A id \in Ids : refs[c][id] = 0
    /\ users \in SUBSET Ids
    /\ undo = <<>>
    /\ dryRun \in BOOLEAN
    /\ variant \in {"config", "scan"}
    /\ run = "none"
    /\ runs = 0
    /\ pc = "idle"
    /\ recordCounts = [t \in TableSet |-> 0]
    /\ idx = 1
    /\ recordCount = 0
    /\ results = [t \in TableSet |-> NoResult]
    /\ totalMigrated = 0
    /\ verification = -1
    /\ conn = "none"
    /\ tx = "none"
    /\ err = "none"
    /\ log = <<>>
    /\ saves = 0
    /\ outcome = "none"
    /\ safety = NoSafety
    /\ backup = {}
    /\ removal = NoRemoval
    /\ rverify = NoVerify
    /\ hist = NewHist(refs, users, "none")
    /\ validation = NoValidation
    /\ cli = [pc |-> "menu", steps |-> <<>>]
    /\ dump = NoDump
    /\ tester = [pc |-> "idle", next |-> 1, failed |-> FALSE, testResults |-> <<>>,
                 returned |-> NoReturn]

\* SOURCE_USER_ID and TARGET_USER_ID differ, the configured bindings exist
Init ==
    /\ schema = FullSchema
    /\ target = targetUserId
    /\ bindings = MIGRATION_TABLES
    /\ Constructed

\* TARGET_USER_ID set to the value of SOURCE_USER_ID
InitSameIds ==
    /\ schema = FullSchema
    /\ target = sourceUserId
    /\ bindings = MIGRATION_TABLES
    /\ Constructed

\* any schema: configured tables or columns may be missing
InitAnySchema ==
    /\ schema \in Schemas
    /\ target = targetUserId
    /\ bindings = MIGRATION_TABLES
    /\ Constructed

\* a schema with a second column LIKE '%user_id%' in one table
InitWideSchema ==
    /\ schema = WideSchema
    /\ target = targetUserId
    /\ bindings = MIGRATION_TABLES
    /\ Constructed

\* the schemas over all the columns LIKE '%user_id%'
WideSchemas == {sch \in [tables : SUBSET TableSet, columns : SUBSET Cols] :
                   \A b \in sch.columns : b[1] \in sch.tables}

RECURSIVE ListsOf(_, _)
\* the lists of n different bindings
ListsOf(B, n) ==
    IF n = 0 THEN {<<>>}
    ELSE UNION {{Append(l, b) : b \in B \ {l[i] : i \in 1..Len(l)}} : l \in ListsOf(B, n - 1)}

\* the binding lists config/tables.js may be edited to hold
BindingLists == UNION {ListsOf(Cols, n) : n \in 1..MaxBindings}

\* any binding list, two bindings of one table included, against any schema
InitBindingLists ==
    /\ schema \in WideSchemas
    /\ target = targetUserId
    /\ bindings \in BindingLists
    /\ Constructed

(* ----------------------------- helpers --------------------------------- *)
RECURSIVE SumSource(_, _)
\* sum over the bindings B of the rows referencing sourceUserId
SumSource(r, B) ==
    IF B = {} THEN 0
    ELSE LET b == CHOOSE x \in B : TRUE
         IN CountRows(r, b, sourceUserId) + SumSource(r, B \ {b})

RECURSIVE Repeat(_, _)
Repeat(x, n) == IF n <= 0 THEN <<>> ELSE <<x>> \o Repeat(x, n - 1)

\* one log entry per binding of B still referencing the source
RemainingWarnings(r, B) ==
    Repeat("warning", Cardinality({b \in B : CountRows(r, b, sourceUserId) > 0}))

\* connection.rollback(): effect on the transaction state
RolledBack(t) == IF t = "open" THEN "rolledback" ELSE t

\* if (connection) connection.release()
Released(c) == IF c = "held" THEN "released" ELSE c

\* release called whether or not a connection was obtained
ReleaseCount_Unguarded(c) == 1

\* finally: if (connection) connection.release()
ReleaseCount(c) == IF c = "held" THEN 1 ELSE 0

(* ------------------------ UserMigrator --------------------------------- *)
\* the not-found test inverted
UserNotFound_Inverted(u, id) == id \in u

\* validatePrerequisites: if (sourceUser.length === 0) / (targetUser.length === 0)
UserNotFound(u, id) == id \notin u

\* the loop starting over after the last table
NextBinding_Restarting(i) == IF i >= Len(Tables) THEN 1 ELSE i + 1

\* executeMigration: for (const [tableName, columns] of Object.entries(tableMap))
NextBinding(i) == i + 1

\* executeMigration: if (userIdColumn && recordCounts[tableName]?.count > 0)
ShouldMigrate(col, cnt) == col # NoColumn /\ cnt > 0

\* the dry-run return missing
SimulateReturns_Missing(dr) == FALSE

\* migrateTable: if (this.dryRun) return { migrated: 0, skipped: recordCount }
SimulateReturns(dr) == dr

\* the pre-count reported as the migrated count
Migrated_PreCount(affectedRows, counted) == counted

\* migrateTable: return { migrated: updateResult.affectedRows, skipped: 0, ... }
Migrated(affectedRows, counted) == affectedRows

\* executeMigration: if (!this.dryRun && totalMigrated > 0) commit
ShouldCommit(dr, total) == ~dr /\ total > 0

\* countRecordsByTable: catch (err) { recordCounts[tableName] = { count: 0, ... } }
CountedRecords(r, t, failedTables) ==
    IF UserIdColumn(t) = NoColumn \/ t \in failedTables THEN 0
    ELSE CountRows(r, <<t, UserIdColumn(t)>>, sourceUserId)

\* run(), executeMigration() entry
StartMigration ==
    /\ pc \in {"idle", "done"}
    /\ runs < MaxRuns
    /\ run' = "migration"
    /\ runs' = runs + 1
    /\ pc' = "m_validate"
    /\ recordCounts' = [t \in TableSet |-> 0]
    /\ idx' = 1
    /\ recordCount' = 0
    /\ results' = [t \in TableSet |-> NoResult]
    /\ totalMigrated' = 0
    /\ verification' = -1
    /\ conn' = "none"
    /\ tx' = "none"
    /\ err' = "none"
    /\ log' = <<"info", "info">>
    /\ saves' = 0
    /\ outcome' = "none"
    /\ hist' = NewHist(refs, users, run)
    /\ UNCHANGED <<dbVars, cfgVars, toolVars, anaVars, remVars>>

ValidatePrerequisites ==
    /\ pc = "m_validate"
    /\ \E q \in {"ok", "fail_source", "fail_target"} :
         IF q = "fail_source"
         THEN /\ err' = "QueryError"
              /\ log' = KeptEntries(log) \o <<"info">>
              /\ hist' = Note(hist, "validate")
              /\ pc' = "m_catch"
         ELSE IF UserNotFound(users, sourceUserId)
         THEN /\ q = "ok"
              /\ err' = "NotFound_source"
              /\ log' = KeptEntries(log) \o <<"info">>
              /\ hist' = hist
              /\ pc' = "m_catch"
         ELSE IF q = "fail_target"
         THEN /\ err' = "QueryError"
              /\ log' = KeptEntries(log) \o <<"info">>
              /\ hist' = Note(hist, "validate")
              /\ pc' = "m_catch"
         ELSE IF UserNotFound(users, target)
         THEN /\ err' = "NotFound_target"
              /\ log' = KeptEntries(log) \o <<"info">>
              /\ hist' = hist
              /\ pc' = "m_catch"
         ELSE /\ err' = err
              /\ log' = KeptEntries(log) \o <<"info", "success">>
              /\ hist' = hist
              /\ pc' = "m_analyze"
    /\ UNCHANGED <<dbVars, cfgVars, toolVars, anaVars, run, runs, migVars, connVars, saves, outcome, remVars>>

\* analyzer.findTablesWithUserId(); analyzer.countRecordsByTable(tableMap)
AnalyzeDatabase ==
    /\ pc = "m_analyze"
    /\ \/ /\ err' = "QueryError"
          /\ hist' = Note(hist, "findTables")
          /\ pc' = "m_catch"
          /\ UNCHANGED recordCounts
       \/ \E F \in SUBSET {t \in TableSet : UserIdColumn(t) # NoColumn} :
            /\ recordCounts' = [t \in TableSet |-> CountedRecords(refs, t, F)]
            /\ hist' = IF F = {} THEN hist ELSE Note(hist, "precount")
            /\ pc' = "m_getconn"
            /\ UNCHANGED err
    /\ UNCHANGED <<dbVars, cfgVars, toolVars, anaVars, run, runs, idx, recordCount, results, totalMigrated,
                   verification, connVars, log, saves, outcome, remVars>>

\* connection = await this.pool.getConnection(); if (!dryRun) beginTransaction()
GetConnection ==
    /\ pc = "m_getconn"
    /\ \E q \in {"ok", "fail_conn", "fail_begin"} :
         IF q = "fail_conn"
         THEN /\ err' = "ConnectionError"
              /\ hist' = Note(hist, "getConnection")
              /\ pc' = "m_catch"
              /\ UNCHANGED <<conn, tx, log>>
         ELSE IF dryRun
         THEN /\ q = "ok"
              /\ conn' = "held"
              /\ pc' = "m_loop"
              /\ UNCHANGED <<tx, err, log, hist>>
         ELSE IF q = "fail_begin"
         THEN /\ conn' = "held"
              /\ err' = "QueryError"
              /\ hist' = Note(hist, "begin")
              /\ pc' = "m_catch"
              /\ UNCHANGED <<tx, log>>
         ELSE /\ conn' = "held"
              /\ tx' = "open"
              /\ log' = KeptEntries(log) \o <<"info">>
              /\ hist' = [hist EXCEPT !.begins = @ + 1]
              /\ pc' = "m_loop"
              /\ UNCHANGED err
    /\ UNCHANGED <<dbVars, cfgVars, toolVars, anaVars, run, runs, migVars, saves, outcome, remVars>>

\* for (const [tableName, columns] of Object.entries(tableMap))
MigrateLoop ==
    /\ pc = "m_loop"
    /\ IF idx > Len(Tables)
       THEN /\ pc' = "m_commit"
            /\ UNCHANGED idx
       ELSE IF ShouldMigrate(UserIdColumn(Tables[idx]), recordCounts[Tables[idx]])
       THEN /\ pc' = "mt_count"
            /\ UNCHANGED idx
       ELSE /\ pc' = "m_loop"
            /\ idx' = NextBinding(idx)
    /\ UNCHANGED <<dbVars, cfgVars, toolVars, anaVars, run, runs, recordCounts, recordCount, results,
                   totalMigrated, verification, connVars, err, log, saves, outcome,
                   remVars, hist>>

\* migrateTable, up to the dry-run return
MigrateTableCount ==
    /\ pc = "mt_count"
    /\ LET t == Tables[idx]
           col == <<t, UserIdColumn(t)>>
           n == CountRows(refs, col, sourceUserId)
       IN \/ /\ err' = "QueryError"
             /\ log' = KeptEntries(log) \o <<"info", "error">>
             /\ hist' = Issue(Note(hist, "tablecount"), t, <<"count">>)
             /\ pc' = "m_inner"
             /\ UNCHANGED <<recordCount, results, idx>>
          \/ /\ recordCount' = n
             /\ hist' = Issue(hist, t, <<"count">>)
             /\ UNCHANGED err
             /\ IF n = 0
                THEN /\ log' = KeptEntries(log) \o <<"info", "info">>
                     /\ results' = [results EXCEPT ![t] = [migrated |-> 0, skipped |-> 0]]
                     /\ idx' = NextBinding(idx)
                     /\ pc' = "m_loop"
                ELSE IF SimulateReturns(dryRun)
                THEN /\ log' = KeptEntries(log) \o <<"info", "info", "warning">>
                     /\ results' = [results EXCEPT ![t] = [migrated |-> 0, skipped |-> n]]
                     /\ idx' = NextBinding(idx)
                     /\ pc' = "m_loop"
                ELSE /\ log' = KeptEntries(log) \o <<"info", "info">>
                     /\ pc' = "mt_update"
                     /\ UNCHANGED <<results, idx>>
    /\ UNCHANGED <<dbVars, cfgVars, toolVars, anaVars, run, runs, recordCounts, totalMigrated, verification,
                   connVars, saves, outcome, remVars>>

\* migrateTable: conflict check and UPDATE
MigrateTableUpdate ==
    /\ pc = "mt_update"
    /\ LET t == Tables[idx]
           col == <<t, UserIdColumn(t)>>
           existingRecords == CountRows(refs, col, target)
           affectedRows == CountRows(refs, col, sourceUserId)
       IN \/ /\ \/ hist' = Issue(Note(hist, "conflict"), t, <<"conflict">>)
                \/ hist' = Issue(Note(hist, "rewrite"), t, <<"conflict", "update">>)
             /\ err' = "QueryError"
             /\ log' = KeptEntries(log) \o <<"error">>
             /\ pc' = "m_inner"
             /\ UNCHANGED <<refs, undo, results, totalMigrated, idx>>
          \/ /\ refs' = UpdateRows(refs, col, target)
             /\ undo' = IF InTx(tx) THEN Append(undo, UndoUpdate(col, affectedRows, target))
                        ELSE undo
             /\ hist' = [Issue(hist, t, <<"conflict", "update">>) EXCEPT !.stmts =
                            Append(@, [op |-> "UPDATE", table |-> t,
                                       channel |-> StmtChannel, tx |-> tx,
                                       affected |-> affectedRows,
                                       counted |-> recordCount])]
             /\ log' = KeptEntries(log) \o (IF existingRecords > 0 THEN <<"warning">> ELSE <<>>)
                           \o <<"success">>
             /\ results' = [results EXCEPT ![t] =
                               [migrated |-> Migrated(affectedRows, recordCount), skipped |-> 0]]
             /\ totalMigrated' = totalMigrated + Migrated(affectedRows, recordCount)
             /\ idx' = NextBinding(idx)
             /\ pc' = "m_loop"
             /\ UNCHANGED err
    /\ UNCHANGED <<users, cfgVars, toolVars, anaVars, run, runs, recordCounts, recordCount, verification,
                   connVars, saves, outcome, remVars>>

\* executeMigration: catch around migrateTable (rollback, rethrow)
MigrateInnerCatch ==
    /\ pc = "m_inner"
    /\ pc' = "m_catch"
    /\ IF dryRun
       THEN /\ log' = KeptEntries(log) \o <<"error">>
            /\ UNCHANGED <<refs, undo, tx, err, hist>>
       ELSE \/ /\ refs' = Rollback(refs, undo)
               /\ undo' = <<>>
               /\ tx' = RolledBack(tx)
               /\ log' = KeptEntries(log) \o <<"error", "error">>
               /\ hist' = [hist EXCEPT !.rollbacks = @ + 1]
               /\ UNCHANGED err
            \/ /\ err' = "RollbackError"
               /\ log' = KeptEntries(log) \o <<"error">>
               /\ hist' = [Note(hist, "rollback") EXCEPT !.rollbacks = @ + 1]
               /\ UNCHANGED <<refs, undo, tx>>
    /\ UNCHANGED <<users, cfgVars, toolVars, anaVars, run, runs, migVars, conn, saves, outcome, remVars>>

\* executeMigration: commit, return, finally release
MigrateCommit ==
    /\ pc = "m_commit"
    /\ IF ShouldCommit(dryRun, totalMigrated)
       THEN \/ /\ tx' = "committed"
               /\ undo' = <<>>
               /\ log' = KeptEntries(log) \o <<"success", "success">>
               /\ hist' = [hist EXCEPT !.commits = @ + 1, !.execReturned = TRUE,
                                       !.releases = @ + ReleaseCount(conn)]
               /\ conn' = Released(conn)
               /\ pc' = "m_verify"
               /\ UNCHANGED err
            \/ /\ err' = "QueryError"
               /\ hist' = Note(hist, "commit")
               /\ pc' = "m_catch"
               /\ UNCHANGED <<tx, undo, log, conn>>
       ELSE /\ log' = KeptEntries(log) \o <<"success">>
            /\ hist' = [hist EXCEPT !.execReturned = TRUE,
                                    !.releases = @ + ReleaseCount(conn)]
            /\ conn' = Released(conn)
            /\ pc' = "m_verify"
            /\ UNCHANGED <<tx, undo, err>>
    /\ UNCHANGED <<refs, users, cfgVars, toolVars, anaVars, run, runs, migVars, saves, outcome, remVars>>

\* executeMigration: outer catch (rollback, rethrow) and finally (release)
MigrateCatch ==
    /\ pc = "m_catch"
    /\ pc' = "m_runcatch"
    /\ conn' = Released(conn)
    /\ IF conn = "held" /\ ~dryRun
       THEN \/ /\ refs' = Rollback(refs, undo)
               /\ undo' = <<>>
               /\ tx' = RolledBack(tx)
               /\ log' = KeptEntries(log) \o <<"error", "info">>
               /\ hist' = [hist EXCEPT !.rollbacks = @ + 1,
                                       !.releases = @ + ReleaseCount(conn)]
            \/ /\ log' = KeptEntries(log) \o <<"error", "error">>
               /\ hist' = [Note(hist, "rollback") EXCEPT !.rollbacks = @ + 1,
                                       !.releases = @ + ReleaseCount(conn)]
               /\ UNCHANGED <<refs, undo, tx>>
       ELSE /\ log' = KeptEntries(log) \o <<"error">>
            /\ hist' = [hist EXCEPT !.releases = @ + ReleaseCount(conn)]
            /\ UNCHANGED <<refs, undo, tx>>
    /\ UNCHANGED <<users, cfgVars, toolVars, anaVars, run, runs, migVars, err, saves, outcome, remVars>>

\* verifyMigration
VerifyMigration ==
    /\ pc = "m_verify"
    /\ \/ /\ err' = "QueryError"
          /\ log' = KeptEntries(log) \o <<"info", "error">>
          /\ hist' = Note(hist, "verify")
          /\ pc' = "m_runcatch"
          /\ UNCHANGED verification
       \/ /\ verification' = SumSource(refs, MigBindings)
          /\ log' = KeptEntries(log) \o <<"info">> \o RemainingWarnings(refs, MigBindings)
                        \o (IF SumSource(refs, MigBindings) = 0
                            THEN <<"success">> ELSE <<"warning">>)
          /\ pc' = "m_finish"
          /\ UNCHANGED <<err, hist>>
    /\ refs' = AfterCount(refs)
    /\ UNCHANGED <<users, undo, cfgVars, toolVars, anaVars, run, runs, recordCounts, idx, recordCount, results,
                   totalMigrated, connVars, saves, outcome, remVars>>

\* the run's catch block rethrowing without saving the log
SavedInCatch_Missing(n) == n

\* run catch: this.saveMigrationLog() / this.saveRemovalLog()
SavedInCatch(n) == n + 1

\* run(): saveMigrationLog, return (success path), finally pool.end()
MigrateRunReturns ==
    /\ pc = "m_finish"
    /\ saves' = saves + 1
    /\ \/ /\ log' = KeptEntries(log) \o <<"info">>
          /\ outcome' = "success"
          /\ pc' = "done"
          /\ UNCHANGED <<err, hist>>
       \/ /\ err' = "WriteError"
          /\ hist' = Note(hist, "save")
          /\ pc' = "m_runcatch"
          /\ UNCHANGED <<log, outcome>>
    /\ UNCHANGED <<dbVars, cfgVars, toolVars, anaVars, run, runs, migVars, connVars, remVars>>

\* run(): catch (log, saveMigrationLog, rethrow), finally pool.end()
MigrateRunCatch ==
    /\ pc = "m_runcatch"
    /\ saves' = SavedInCatch(saves)
    /\ outcome' = "error"
    /\ pc' = "done"
    /\ \/ /\ log' = KeptEntries(log) \o <<"error", "info">>
          /\ UNCHANGED <<err, hist>>
       \/ /\ log' = KeptEntries(log) \o <<"error">>
          /\ err' = "WriteError"
          /\ hist' = Note(hist, "save")
    /\ UNCHANGED <<dbVars, cfgVars, toolVars, anaVars, run, runs, migVars, connVars, remVars>>

MigrationNext ==
    \/ StartMigration
    \/ ValidatePrerequisites
    \/ AnalyzeDatabase
    \/ GetConnection
    \/ MigrateLoop
    \/ MigrateTableCount
    \/ MigrateTableUpdate
    \/ MigrateInnerCatch
    \/ MigrateCommit
    \/ MigrateCatch
    \/ VerifyMigration
    \/ MigrateRunReturns
    \/ MigrateRunCatch

(* ------------------------- UserRemover --------------------------------- *)
\* verifySafeToRemove: the bindings whose count is added to totalReferences.
\* Configured version: a failed count is caught, recorded as -1 and not added.
CountedBindings(F) == CfgBindings \ F

\* the safety verdict refusing every removal
IsSafe_Never(totalReferences) == FALSE

\* verifySafeToRemove: const isSafe = totalReferences === 0
IsSafe(totalReferences) == totalReferences = 0

RECURSIVE SafetyLog(_, _, _)
\* verifySafeToRemove (configured version): one log entry per binding, in order
SafetyLog(r, F, i) ==
    IF i > Len(MIGRATION_TABLES) THEN <<>>
    ELSE LET b == MIGRATION_TABLES[i]
         IN << IF b \in F THEN "error"
               ELSE IF CountRows(r, b, sourceUserId) > 0 THEN "warning"
               ELSE "info" >> \o SafetyLog(r, F, i + 1)

\* the backup error logged but not rethrown
AfterBackup_Swallowed(failed) == "r_getconn"

\* createUserBackup: catch (error) { log; throw error }
AfterBackup(failed) == IF failed THEN "r_catch" ELSE "r_getconn"

\* run(), entry
StartRemoval ==
    /\ pc \in {"idle", "done"}
    /\ runs < MaxRuns
    /\ run' = "removal"
    /\ runs' = runs + 1
    /\ pc' = "r_safety"
    /\ safety' = NoSafety
    /\ backup' = {}
    /\ removal' = NoRemoval
    /\ rverify' = NoVerify
    /\ conn' = "none"
    /\ tx' = "none"
    /\ err' = "none"
    /\ log' = <<>>
    /\ saves' = 0
    /\ outcome' = "none"
    /\ hist' = NewHist(refs, users, run)
    /\ UNCHANGED <<dbVars, cfgVars, toolVars, anaVars, migVars>>

\* verifySafeToRemove over MIGRATION_TABLES, and run(): if (!safetyResult.isSafe) throw
VerifySafeToRemove ==
    /\ pc = "r_safety"
    /\ variant = "config"
    /\ \E F \in SUBSET CfgBindings :
         /\ CfgBindings \ schema.columns \subseteq F
         /\ LET totalReferences == SumSource(refs, CountedBindings(F))
            IN /\ safety' = [isSafe |-> IsSafe(totalReferences),
                             totalReferences |-> totalReferences, failed |-> F]
               /\ hist' = [(IF F = {} THEN hist ELSE Note(hist, "safetycount"))
                              EXCEPT !.safetyRefs = SumSource(refs, CfgBindings)]
               /\ log' = KeptEntries(log) \o <<"info">> \o SafetyLog(refs, F, 1)
                             \o (IF IsSafe(totalReferences) THEN <<"success">> ELSE <<"error">>)
               /\ IF IsSafe(totalReferences)
                  THEN /\ pc' = "r_backup"
                       /\ UNCHANGED err
                  ELSE /\ pc' = "r_catch"
                       /\ err' = "SafetyError"
    /\ refs' = AfterCount(refs)
    /\ UNCHANGED <<users, undo, cfgVars, toolVars, anaVars, run, runs, migVars, connVars, saves, outcome,
                   backup, removal, rverify>>

\* verifySafeToRemove over the scanned schema, and run(): if (!safetyResult.isSafe) throw
VerifySafeToRemoveScan ==
    /\ pc = "r_safety"
    /\ variant = "scan"
    /\ \/ /\ err' = "QueryError"
          /\ log' = KeptEntries(log) \o <<"info", "error">>
          /\ hist' = [Note(hist, "safetycount")
                         EXCEPT !.safetyRefs = SumSource(refs, MigBindings)]
          /\ pc' = "r_catch"
          /\ UNCHANGED safety
       \/ LET totalReferences == SumSource(refs, MigBindings)
          IN /\ safety' = [isSafe |-> IsSafe(totalReferences),
                           totalReferences |-> totalReferences, failed |-> {}]
             /\ hist' = [hist EXCEPT !.safetyRefs = SumSource(refs, MigBindings)]
             /\ log' = KeptEntries(log) \o <<"info">> \o RemainingWarnings(refs, MigBindings)
                           \o (IF IsSafe(totalReferences) THEN <<"success">> ELSE <<"error">>)
             /\ IF IsSafe(totalReferences)
                THEN /\ pc' = "r_fk"
                     /\ UNCHANGED err
                ELSE /\ pc' = "r_catch"
                     /\ err' = "SafetyError"
    /\ refs' = AfterCount(refs)
    /\ UNCHANGED <<users, undo, cfgVars, toolVars, anaVars, run, runs, migVars, connVars, saves, outcome,
                   backup, removal, rverify>>

\* analyzeForeignKeys (schema-scan version only)
AnalyzeForeignKeys ==
    /\ pc = "r_fk"
    /\ \/ /\ err' = "QueryError"
          /\ log' = KeptEntries(log) \o <<"info", "error">>
          /\ hist' = Note(hist, "foreignKeys")
          /\ pc' = "r_catch"
       \/ /\ log' = KeptEntries(log) \o <<"info", "info">>
          /\ pc' = "r_backup"
          /\ UNCHANGED <<err, hist>>
    /\ UNCHANGED <<dbVars, cfgVars, toolVars, anaVars, run, runs, migVars, connVars, saves, outcome, remVars>>

\* the not-found test of createUserBackup missing
BackupRowMissing_Unchecked(u) == FALSE

\* createUserBackup: if (userData.length === 0) throw
BackupRowMissing(u) == sourceUserId \notin u

\* createUserBackup
CreateUserBackup ==
    /\ pc = "r_backup"
    /\ \E q \in {"ok", "fail_select", "fail_write"} :
         IF q = "fail_select"
         THEN /\ err' = "QueryError"
              /\ hist' = Note(hist, "backupSelect")
              /\ log' = KeptEntries(log) \o <<"info", "error">>
              /\ pc' = AfterBackup(TRUE)
              /\ UNCHANGED backup
         ELSE IF BackupRowMissing(users)
         THEN /\ q = "ok"
              /\ err' = "NotFound_backup"
              /\ hist' = [Note(hist, "backupNotFound") EXCEPT !.backupSaw = "absent"]
              /\ log' = KeptEntries(log) \o <<"info", "error">>
              /\ pc' = AfterBackup(TRUE)
              /\ UNCHANGED backup
         ELSE IF q = "fail_write"
         THEN /\ err' = "WriteError"
              /\ hist' = [Note(hist, "backupWrite") EXCEPT !.backupSaw =
                              IF sourceUserId \in users THEN "present" ELSE "absent"]
              /\ log' = KeptEntries(log) \o <<"info", "error">>
              /\ pc' = AfterBackup(TRUE)
              /\ UNCHANGED backup
         ELSE /\ backup' = backup \cup {sourceUserId}
              /\ log' = KeptEntries(log) \o <<"info", "success">>
              /\ pc' = AfterBackup(FALSE)
              /\ hist' = [hist EXCEPT !.backupSaw =
                              IF sourceUserId \in users THEN "present" ELSE "absent"]
              /\ UNCHANGED err
    /\ UNCHANGED <<dbVars, cfgVars, toolVars, anaVars, run, runs, migVars, connVars, saves, outcome,
                   safety, removal, rverify>>

\* run(): connection = await this.pool.getConnection(); if (!dryRun) beginTransaction()
RemoveGetConnection ==
    /\ pc = "r_getconn"
    /\ \E q \in {"ok", "fail_conn", "fail_begin"} :
         IF q = "fail_conn"
         THEN /\ err' = "ConnectionError"
              /\ hist' = Note(hist, "getConnection")
              /\ pc' = "r_catch"
              /\ UNCHANGED <<conn, tx, log>>
         ELSE IF dryRun
         THEN /\ q = "ok"
              /\ conn' = "held"
              /\ pc' = "r_delete"
              /\ UNCHANGED <<tx, err, log, hist>>
         ELSE IF q = "fail_begin"
         THEN /\ conn' = "held"
              /\ err' = "QueryError"
              /\ hist' = Note(hist, "begin")
              /\ pc' = "r_catch"
              /\ UNCHANGED <<tx, log>>
         ELSE /\ conn' = "held"
              /\ tx' = "open"
              /\ log' = KeptEntries(log) \o <<"info">>
              /\ hist' = [hist EXCEPT !.begins = @ + 1]
              /\ pc' = "r_delete"
              /\ UNCHANGED err
    /\ UNCHANGED <<dbVars, cfgVars, toolVars, anaVars, run, runs, migVars, saves, outcome, remVars>>

\* the dry-run return of removeUserRecord missing
SimulateRemoval_Missing(dr) == FALSE

\* removeUserRecord: if (this.dryRun) return { removed: false, simulated: true }
SimulateRemoval(dr) == dr

\* a DELETE that affected no row taken for a removal
DeletedNothing_Ignored(affectedRows) == FALSE

\* removeUserRecord: if (deleteResult.affectedRows === 0) throw
DeletedNothing(affectedRows) == affectedRows = 0

\* removeUserRecord
RemoveUserRecord ==
    /\ pc = "r_delete"
    /\ IF SimulateRemoval(dryRun)
       THEN /\ removal' = [removed |-> FALSE, simulated |-> TRUE, affectedRows |-> -1]
            /\ log' = KeptEntries(log) \o <<"info", "warning">>
            /\ pc' = "r_verify"
            /\ UNCHANGED <<users, undo, err, hist>>
       ELSE \/ /\ err' = "QueryError"
               /\ hist' = Note(hist, "delete")
               /\ log' = KeptEntries(log) \o <<"info", "error">>
               /\ pc' = "r_catch"
               /\ UNCHANGED <<users, undo, removal>>
            \/ LET affectedRows == IF sourceUserId \in users THEN 1 ELSE 0
                   h == [hist EXCEPT !.stmts =
                            Append(@, [op |-> "DELETE", table |-> "user",
                                       channel |-> StmtChannel, tx |-> tx,
                                       affected |-> affectedRows])]
               IN /\ users' = users \ {sourceUserId}
                  /\ undo' = IF InTx(tx) /\ affectedRows = 1
                             THEN Append(undo, UndoDelete(sourceUserId)) ELSE undo
                  /\ IF DeletedNothing(affectedRows)
                     THEN /\ err' = "NotFound_delete"
                          /\ hist' = Note(h, "deleteNone")
                          /\ log' = KeptEntries(log) \o <<"info", "error">>
                          /\ pc' = "r_catch"
                          /\ UNCHANGED removal
                     ELSE /\ removal' = [removed |-> TRUE, simulated |-> FALSE,
                                         affectedRows |-> affectedRows]
                          /\ hist' = h
                          /\ log' = KeptEntries(log) \o <<"info", "success">>
                          /\ pc' = "r_verify"
                          /\ UNCHANGED err
    /\ UNCHANGED <<refs, cfgVars, toolVars, anaVars, run, runs, migVars, connVars, saves, outcome,
                   safety, backup, rverify>>

\* verifyRemoval
VerifyRemoval ==
    /\ pc = "r_verify"
    /\ \/ /\ err' = "QueryError"
          /\ hist' = Note(hist, "verifyRemoval")
          /\ log' = KeptEntries(log) \o <<"info", "error">>
          /\ pc' = "r_catch"
          /\ UNCHANGED rverify
       \/ /\ rverify' = [success |-> sourceUserId \notin users, ran |-> TRUE]
          /\ log' = KeptEntries(log) \o <<"info">>
                        \o (IF sourceUserId \in users THEN <<"error">> ELSE <<"success">>)
          /\ pc' = "r_commit"
          /\ UNCHANGED <<err, hist>>
    /\ UNCHANGED <<dbVars, cfgVars, toolVars, anaVars, run, runs, migVars, connVars, saves, outcome,
                   safety, backup, removal>>

\* run(): commit or rollback after verifyRemoval, saveRemovalLog, return, finally
RemoveCommit ==
    /\ pc = "r_commit"
    /\ \E saved \in BOOLEAN :
         IF dryRun
         THEN /\ saves' = saves + 1
              /\ UNCHANGED <<refs, users, undo, tx>>
              /\ IF saved
                 THEN /\ log' = KeptEntries(log) \o <<"info">>
                      /\ outcome' = "success"
                      /\ conn' = Released(conn)
                      /\ hist' = [hist EXCEPT !.releases = @ + ReleaseCount(conn)]
                      /\ pc' = "done"
                      /\ UNCHANGED err
                 ELSE /\ err' = "WriteError"
                      /\ hist' = Note(hist, "save")
                      /\ pc' = "r_catch"
                      /\ UNCHANGED <<log, outcome, conn>>
         ELSE \/ /\ saved
                 /\ err' = "QueryError"
                 /\ hist' = Note(hist, IF rverify.success THEN "commit" ELSE "rollback")
                 /\ pc' = "r_catch"
                 /\ UNCHANGED <<refs, users, undo, tx, conn, log, saves, outcome>>
              \/ LET h == IF rverify.success
                          THEN [hist EXCEPT !.commits = @ + 1]
                          ELSE [hist EXCEPT !.rollbacks = @ + 1]
                     l == IF rverify.success THEN <<"success">> ELSE <<"error">>
                 IN /\ tx' = IF rverify.success THEN "committed" ELSE RolledBack(tx)
                    /\ refs' = IF rverify.success THEN refs ELSE Rollback(refs, undo)
                    /\ users' = IF rverify.success THEN users
                                ELSE RollbackUsers(users, undo)
                    /\ undo' = <<>>
                    /\ saves' = saves + 1
                    /\ IF saved
                       THEN /\ log' = KeptEntries(log) \o l \o <<"info">>
                            /\ outcome' = "success"
                            /\ conn' = Released(conn)
                            /\ hist' = [h EXCEPT !.releases = @ + ReleaseCount(conn)]
                            /\ pc' = "done"
                            /\ UNCHANGED err
                       ELSE /\ log' = KeptEntries(log) \o l
                            /\ err' = "WriteError"
                            /\ hist' = Note(h, "save")
                            /\ pc' = "r_catch"
                            /\ UNCHANGED <<outcome, conn>>
    /\ UNCHANGED <<cfgVars, toolVars, anaVars, run, runs, migVars, remVars>>

\* run(): catch (log, rollback, saveRemovalLog, rethrow) and finally (release, pool.end())
RemoveCatch ==
    /\ pc = "r_catch"
    /\ pc' = "done"
    /\ outcome' = "error"
    /\ saves' = SavedInCatch(saves)
    /\ conn' = Released(conn)
    /\ \E saved \in BOOLEAN :
         LET l == IF saved THEN <<"info">> ELSE <<>>
             h == [(IF saved THEN hist ELSE Note(hist, "save"))
                      EXCEPT !.releases = @ + ReleaseCount(conn)]
         IN /\ err' = IF saved THEN err ELSE "WriteError"
            /\ IF conn = "held" /\ ~dryRun
               THEN \/ /\ refs' = Rollback(refs, undo)
                       /\ users' = RollbackUsers(users, undo)
                       /\ undo' = <<>>
                       /\ tx' = RolledBack(tx)
                       /\ log' = KeptEntries(log) \o <<"error", "info">> \o l
                       /\ hist' = [h EXCEPT !.rollbacks = @ + 1]
                    \/ /\ log' = KeptEntries(log) \o <<"error", "error">> \o l
                       /\ hist' = [Note(h, "rollback") EXCEPT !.rollbacks = @ + 1]
                       /\ UNCHANGED <<refs, users, undo, tx>>
               ELSE /\ log' = KeptEntries(log) \o <<"error">> \o l
                    /\ hist' = h
                    /\ UNCHANGED <<refs, users, undo, tx>>
    /\ UNCHANGED <<cfgVars, toolVars, anaVars, run, runs, migVars, remVars>>

RemovalNext ==
    \/ StartRemoval
    \/ VerifySafeToRemove
    \/ VerifySafeToRemoveScan
    \/ AnalyzeForeignKeys
    \/ CreateUserBackup
    \/ RemoveGetConnection
    \/ RemoveUserRecord
    \/ VerifyRemoval
    \/ RemoveCommit
    \/ RemoveCatch

(* ------------------------ DatabaseAnalyzer ----------------------------- *)
RECURSIVE Lookups(_, _, _, _)
\* validateTablesExist / validateColumnsExist: for (const tableConfig of
\* MIGRATION_TABLES) results[tableConfig.table] = { exists: count > 0 }, and
\* exists: false when the metadata query of binding i failed (i \in F)
Lookups(res, present, F, i) ==
    IF i > Len(bindings) THEN res
    ELSE Lookups([res EXCEPT ![bindings[i][1]] = i \notin F /\ present[i]],
                 present, F, i + 1)

TablePresent(sch) == [i \in 1..Len(bindings) |-> bindings[i][1] \in sch.tables]
ColumnPresent(sch) == [i \in 1..Len(bindings) |-> bindings[i] \in sch.columns]

\* a binding rejected only when its table is missing
BindingInvalid_TableOnly(tableExists, columnExists) == ~tableExists

\* validateMigrationTables: the two branches that set allValid = false
BindingInvalid(tableExists, columnExists) ==
    IF tableExists /\ columnExists THEN FALSE
    ELSE IF ~tableExists THEN TRUE
    ELSE ~columnExists

RECURSIVE Validated(_, _, _, _)
\* validateMigrationTables: validationResults[tableName] = {tableExists, columnExists, valid}
Validated(res, tv, cv, i) ==
    IF i > Len(bindings) THEN res
    ELSE LET t == bindings[i][1]
         IN Validated([res EXCEPT ![t] = [tableExists |-> tv[t], columnExists |-> cv[t],
                                          valid |-> tv[t] /\ cv[t]]],
                      tv, cv, i + 1)

\* validateMigrationTables: allValid after the loop
AllValid(tv, cv) ==
    \A i \in 1..Len(bindings) :
        ~BindingInvalid(tv[bindings[i][1]], cv[bindings[i][1]])

\* a call of analyzer.validateMigrationTables()
StartValidation ==
    /\ pc \in {"idle", "done"}
    /\ runs < MaxRuns
    /\ run' = "validation"
    /\ runs' = runs + 1
    /\ pc' = "v_tables"
    /\ validation' = NoValidation
    /\ err' = "none"
    /\ outcome' = "none"
    /\ hist' = NewHist(refs, users, outcome)
    /\ UNCHANGED <<dbVars, cfgVars, toolVars, migVars, connVars, log, saves, remVars>>

\* validateTablesExist(this.pool)
ValidateTablesExist ==
    /\ pc = "v_tables"
    /\ \E F \in SUBSET (1..Len(bindings)) :
         /\ validation' = [validation EXCEPT
                !.tableValidation = Lookups(NoLookup, TablePresent(schema), F, 1)]
         /\ hist' = [hist EXCEPT !.absent =
                {i \in 1..Len(bindings) : i \in F \/ ~TablePresent(schema)[i]}]
    /\ pc' = "v_columns"
    /\ UNCHANGED <<dbVars, cfgVars, toolVars, run, runs, migVars, connVars, err, log, saves, outcome, remVars>>

\* validateColumnsExist(this.pool)
ValidateColumnsExist ==
    /\ pc = "v_columns"
    /\ \E F \in SUBSET (1..Len(bindings)) :
         /\ validation' = [validation EXCEPT
                !.columnValidation = Lookups(NoLookup, ColumnPresent(schema), F, 1)]
         /\ hist' = [hist EXCEPT !.absent = @ \cup
                {i \in 1..Len(bindings) : i \in F \/ ~ColumnPresent(schema)[i]}]
    /\ pc' = "v_results"
    /\ UNCHANGED <<dbVars, cfgVars, toolVars, run, runs, migVars, connVars, err, log, saves, outcome, remVars>>

\* validateMigrationTables: the loop over this.migrationTables, then throw or return
ValidateMigrationTables ==
    /\ pc = "v_results"
    /\ LET tv == validation.tableValidation
           cv == validation.columnValidation
           allValid == AllValid(tv, cv)
       IN /\ validation' = [validation EXCEPT
                 !.ran = TRUE,
                 !.raised = ~allValid,
                 !.results = IF allValid THEN Validated(@, tv, cv, 1) ELSE @]
          /\ err' = IF allValid THEN err ELSE "ValidationError"
          /\ outcome' = IF allValid THEN "success" ELSE "error"
    /\ pc' = "done"
    /\ UNCHANGED <<dbVars, cfgVars, toolVars, run, runs, migVars, connVars, log, saves, remVars, hist>>

ValidationNext ==
    \/ StartValidation
    \/ ValidateTablesExist
    \/ ValidateColumnsExist
    \/ ValidateMigrationTables

\* validation calls against any schema
SpecValidate == InitAnySchema /\ [][ValidationNext]_vars

\* validation calls with any binding list against any schema
SpecValidateLists == InitBindingLists /\ [][ValidationNext]_vars

Next == MigrationNext \/ RemovalNext

Spec == Init /\ [][Next]_vars

\* another session of the MySQL server deletes or inserts the source entity row
OtherWriter ==
    /\ pc \notin {"idle", "done"}
    /\ hist.others < MaxOtherWrites
    /\ users' = IF sourceUserId \in users THEN users \ {sourceUserId}
                ELSE users \cup {sourceUserId}
    /\ hist' = [hist EXCEPT !.others = @ + 1]
    /\ UNCHANGED <<refs, undo, cfgVars, toolVars, anaVars, run, runs, pc, migVars, connVars, err,
                   log, saves, outcome, remVars>>

NextShared == Next \/ OtherWriter

\* another session inserts or deletes a row referencing the source between
\* migrateTable's count and its UPDATE
OtherRowWriter ==
    /\ pc = "mt_update"
    /\ hist.others < MaxOtherWrites
    /\ \E c \in Cols \cap schema.columns :
         \E n \in {refs[c][sourceUserId] - 1, refs[c][sourceUserId] + 1} \cap (0..MaxRows) :
             refs' = [refs EXCEPT ![c][sourceUserId] = n]
    /\ hist' = [hist EXCEPT !.others = @ + 1]
    /\ UNCHANGED <<users, undo, cfgVars, toolVars, anaVars, run, runs, pc, migVars, connVars, err,
                   log, saves, outcome, remVars>>

NextSharedRows == Next \/ OtherRowWriter

\* the runs on a server where another session writes to the referencing tables
SpecSharedRows == Init /\ [][NextSharedRows]_vars

\* the runs on a server that another session writes to
SpecShared == Init /\ [][NextShared]_vars

\* the runs configured with TARGET_USER_ID = SOURCE_USER_ID
SpecSameIds == InitSameIds /\ [][Next]_vars

\* the runs against a schema with a second column LIKE '%user_id%' in one table
SpecWideSchema == InitWideSchema /\ [][Next]_vars

\* the runs against any schema: configured tables or columns may be missing
SpecAnySchema == InitAnySchema /\ [][Next]_vars

(* --------------------------- MigrationCLI ------------------------------ *)
\* everything a migration, removal or validation run reads or writes
runVars == <<dbVars, cfgVars, anaVars, run, runs, pc, migVars, connVars, err, log, saves,
             outcome, remVars, hist>>

\* executeCompleteProcess: the steps in the order it awaits them
CLISteps == <<"analysis", "migration", "removal", "export">>

\* a cancelled step taken for a completed one
Cancelled_Ignored(result) == FALSE

\* executeCompleteProcess: if (!migrationResult) throw / if (!removalResult) throw
Cancelled(result) == result = "cancelled"

\* where executeCompleteProcess goes after a step: a thrown error or a
\* cancellation lands in its catch block
AfterStep(result, next) ==
    IF result = "failed" \/ Cancelled(result) THEN "failed" ELSE next

\* executeCompleteProcess: the confirmation prompt
CLIConfirm ==
    /\ cli.pc = "menu"
    /\ \E confirm \in BOOLEAN :
         cli' = [cli EXCEPT !.pc = IF confirm THEN "analysis" ELSE "cancelled"]
    /\ UNCHANGED <<runVars, dump, tester>>

\* step 1: await this.analyzeDatabaseStructure()
CLIAnalyze ==
    /\ cli.pc = "analysis"
    /\ \E result \in {"returned", "failed"} :
         cli' = [pc |-> AfterStep(result, "migration"),
                 steps |-> Append(cli.steps, [step |-> "analysis", result |-> result])]
    /\ UNCHANGED <<runVars, dump, tester>>

\* step 2: await this.executeMigration(), which asks for confirmation
CLIMigrate ==
    /\ cli.pc = "migration"
    /\ \E result \in {"returned", "cancelled", "failed"} :
         cli' = [pc |-> AfterStep(result, "removal"),
                 steps |-> Append(cli.steps, [step |-> "migration", result |-> result])]
    /\ UNCHANGED <<runVars, dump, tester>>

\* step 4: await this.removeSourceUser(), which asks for confirmation
CLIRemove ==
    /\ cli.pc = "removal"
    /\ \E result \in {"returned", "cancelled", "failed"} :
         cli' = [pc |-> AfterStep(result, "export"),
                 steps |-> Append(cli.steps, [step |-> "removal", result |-> result])]
    /\ UNCHANGED <<runVars, dump, tester>>

\* step 5: await this.exportDatabase(), then return the three results
CLIExport ==
    /\ cli.pc = "export"
    /\ \E result \in {"returned", "failed"} :
         cli' = [pc |-> AfterStep(result, "finished"),
                 steps |-> Append(cli.steps, [step |-> "export", result |-> result])]
    /\ UNCHANGED <<runVars, dump, tester>>

CLINext ==
    \/ CLIConfirm
    \/ CLIAnalyze
    \/ CLIMigrate
    \/ CLIRemove
    \/ CLIExport

\* the complete process of the command-line interface
SpecCLI == Init /\ [][CLINext]_vars

(* --------------------------- DatabaseExporter -------------------------- *)
\* exit codes of a child process: 0 and one nonzero representative
ExitCodes == {0, 1}

\* a promise settles once: later resolve/reject calls have no effect
Settle(promise, to) == IF promise = "pending" THEN to ELSE promise

\* the 'close' handlers that settle the promise: gzip's in compressed mode
\* (resolve on code 0), mysqldump's otherwise
OnClose(promise, code) == Settle(promise, IF code = 0 THEN "resolved" ELSE "rejected")

\* executeMysqldump: spawn mysqldump, and gzip in compressed mode
StartDump ==
    /\ dump.pc = "idle"
    /\ \E compressed \in BOOLEAN :
         dump' = [pc |-> "dumping", compressed |-> compressed, mysqldump |-> "running",
                  code |-> -1, gzip |-> IF compressed THEN "running" ELSE "none",
                  promise |-> "pending"]
    /\ UNCHANGED <<runVars, cli, tester>>

\* mysqldump exits: its settling 'close' handler is registered in the
\* uncompressed branch only; the handler registered in both modes only logs
MysqldumpClose ==
    /\ dump.mysqldump = "running"
    /\ \E code \in ExitCodes :
         dump' = [dump EXCEPT !.mysqldump = "exited", !.code = code,
                              !.promise = IF dump.compressed THEN @ ELSE OnClose(@, code)]
    /\ UNCHANGED <<runVars, cli, tester>>

\* mysqldump could not be spawned: mysqldump.on('error') rejects, and its
\* stdout ends without data
MysqldumpError ==
    /\ dump.mysqldump = "running"
    /\ dump' = [dump EXCEPT !.mysqldump = "error", !.promise = Settle(@, "rejected")]
    /\ UNCHANGED <<runVars, cli, tester>>

\* gzip exits: with 0 once its input ended (mysqldump is gone, whatever its
\* exit code), with a nonzero code at any time
GzipClose ==
    /\ dump.gzip = "running"
    /\ \E code \in ExitCodes :
         /\ code = 0 => dump.mysqldump # "running"
         /\ dump' = [dump EXCEPT !.gzip = "exited", !.promise = OnClose(@, code)]
    /\ UNCHANGED <<runVars, cli, tester>>

\* gzip could not be spawned: gzip.on('error') rejects
GzipError ==
    /\ dump.gzip = "running"
    /\ dump' = [dump EXCEPT !.gzip = "error", !.promise = Settle(@, "rejected")]
    /\ UNCHANGED <<runVars, cli, tester>>

ExportNext ==
    \/ StartDump
    \/ MysqldumpClose
    \/ MysqldumpError
    \/ GzipClose
    \/ GzipError

\* one call of executeMysqldump
SpecExport == Init /\ [][ExportNext]_vars

(* --------------------------- MigrationTester --------------------------- *)
\* runAllTests: the test methods in the order it awaits them
TestNames == <<"testDependencies", "testConfiguration", "testDatabaseConnection",
               "testDatabaseAnalysis", "testUserVerification">>

\* a failed test whose error is not passed on
Thrown_Swallowed(passed) == FALSE

\* runTest: the catch block records FAILED and rethrows the test's error
Thrown(passed) == ~passed

\* this.testResults.filter(t => t.status === 'PASSED').length
PassedTests(testResults) ==
    Cardinality({i \in 1..Len(testResults) : testResults[i].status = "PASSED"})

\* new MigrationTester().runAllTests()
StartTests ==
    /\ tester.pc = "idle"
    /\ tester' = [tester EXCEPT !.pc = "running"]
    /\ UNCHANGED <<runVars, cli, dump>>

\* one awaited test method: runTest pushes a PASSED or a FAILED entry, and a
\* thrown error leaves the try block of runAllTests
RunTest ==
    /\ tester.pc = "running"
    /\ ~tester.failed
    /\ tester.next <= Len(TestNames)
    /\ \E passed \in BOOLEAN :
         tester' = [tester EXCEPT
                       !.testResults = Append(@, [name |-> TestNames[tester.next],
                                                  status |-> IF passed THEN "PASSED" ELSE "FAILED"]),
                       !.failed = Thrown(passed),
                       !.next = IF Thrown(passed) THEN @ ELSE @ + 1]
    /\ UNCHANGED <<runVars, cli, dump>>

\* the return of the try block (success: true) or of the catch block
\* (success: false), both with the counts taken from this.testResults
TestsReturn ==
    /\ tester.pc = "running"
    /\ tester.failed \/ tester.next > Len(TestNames)
    /\ tester' = [tester EXCEPT
                     !.pc = "returned",
                     !.returned = [success |-> ~tester.failed,
                                   passedTests |-> PassedTests(tester.testResults),
                                   totalTests |-> Len(tester.testResults)]]
    /\ UNCHANGED <<runVars, cli, dump>>

TestsNext ==
    \/ StartTests
    \/ RunTest
    \/ TestsReturn

\* one run of the test suite on a fresh tester
SpecTests == Init /\ [][TestsNext]_vars

(* --------------------------- properties -------------------------------- *)
MigrationEnded == run = "migration" /\ pc = "done"
RemovalEnded == run = "removal" /\ pc = "done"
Executed(op) == \E i \in 1..Len(hist.stmts) : hist.stmts[i].op = op
CountsAsBefore == \A b \in MigBindings : refs[b] = hist.preRefs[b]

\* C1: in an Execute-mode migration run in which the rewrite of a binding failed,
\* after the run the rows referencing source and target are, for every binding,
\* what they were before the run.
C1_RewriteFailureRestoresCounts ==
    (MigrationEnded /\ ~dryRun /\ "rewrite" \in hist.failed) => CountsAsBefore

\* C2: whenever the rows referencing the source, summed over all bindings, are
\* more than zero when the removal run makes its safety check, the run fails,
\* writes no snapshot, begins no transaction, executes no DELETE and the source
\* entity row is still there afterwards, in Simulate and in Execute mode.
C2_ReferencedEntityIsNotRemoved ==
    (RemovalEnded /\ hist.safetyRefs > 0) =>
        /\ outcome = "error"
        /\ backup = {}
        /\ hist.begins = 0
        /\ ~Executed("DELETE")
        /\ (sourceUserId \in hist.preUsers => sourceUserId \in users)

\* C3: in a removal run a DELETE of the source entity row is executed only after
\* the snapshot of that entity was written in the same run; a failed fetch or a
\* failed snapshot write means no DELETE.
C3_BackupBeforeDelete ==
    run = "removal" =>
        /\ Executed("DELETE") => sourceUserId \in backup
        /\ (hist.failed \cap {"backupSelect", "backupNotFound", "backupWrite"} # {})
               => ~Executed("DELETE")

C3_Witness ==
    /\ RemovalEnded
    /\ Executed("DELETE")
    /\ sourceUserId \in backup
    /\ sourceUserId \notin users

\* C4: if a binding's count query fails during the removal safety check, the run
\* writes no snapshot and executes no DELETE.
C4_FailClosedGate ==
    (run = "removal" /\ "safetycount" \in hist.failed) =>
        (backup = {} /\ ~Executed("DELETE"))

\* C5: after an Execute-mode migration run that completed without error, every
\* binding has no row referencing the source and its rows referencing the target
\* are the pre-run ones plus the pre-run rows referencing the source.
C5_CompletedMigrationMovesAll ==
    (MigrationEnded /\ ~dryRun /\ outcome = "success") =>
        \A b \in MigBindings :
            /\ CountRows(refs, b, sourceUserId) = 0
            /\ CountRows(refs, b, targetUserId) =
                   CountRows(hist.preRefs, b, targetUserId)
                       + CountRows(hist.preRefs, b, sourceUserId)

\* C6: a Simulate-mode migration run executes no data-modifying statement: at
\* every point of the run, and after it, ended in success or in error, every
\* binding's counts are the pre-run ones.
C6_SimulateChangesNothing ==
    (run = "migration" /\ dryRun) =>
        /\ hist.stmts = <<>>
        /\ refs = hist.preRefs
        /\ users = hist.preUsers

C6_Witness ==
    /\ MigrationEnded
    /\ dryRun
    /\ \E t \in TableSet : results[t].skipped > 0
    /\ refs = hist.preRefs

\* C7: every data-modifying statement of a run is executed on the connection on
\* which the run began its transaction, inside that transaction.
C7_WritesOnTransactionConnection ==
    \A i \in 1..Len(hist.stmts) :
        hist.stmts[i].channel = "conn" /\ hist.stmts[i].tx = "open"

SourceFreeBefore == \A b \in MigBindings : CountRows(hist.preRefs, b, sourceUserId) = 0
SecondMigration ==
    /\ MigrationEnded
    /\ ~dryRun
    /\ hist.prev = "migration"
    /\ SourceFreeBefore
    /\ Ids \subseteq hist.preUsers
Idempotent == outcome = "success" /\ totalMigrated = 0 /\ refs = hist.preRefs
              /\ users = hist.preUsers

C9_ReturnImpliesCommitted ==
    (run = "migration" /\ ~dryRun /\ hist.execReturned) => tx = "committed"

\* C10: if the post-migration verification finds rows still referencing the
\* source, run() does not end on its success path.
C10_RemainingReferencesFailRun ==
    (MigrationEnded /\ verification > 0) => outcome # "success"

\* C11: in an Execute-mode removal run whose post-delete read finds the source
\* entity row still there, the transaction is never committed and run() does
\* not end on its success path.
C11_StillPresentFailsRun ==
    (RemovalEnded /\ ~dryRun /\ rverify.ran /\ ~rverify.success) =>
        (hist.commits = 0 /\ tx # "committed" /\ outcome # "success")

\* C12: if a statement fails in an Execute-mode removal run after the DELETE was
\* executed (and the rollback itself does not fail), the transaction is rolled
\* back, the run ends in error and the source entity row exists after the run.
C12_FailureAfterDeleteRestoresEntity ==
    (RemovalEnded /\ ~dryRun /\ removal.removed
        /\ hist.failed \cap {"verifyRemoval", "commit", "save"} # {}
        /\ "rollback" \notin hist.failed) =>
        (outcome = "error" /\ hist.rollbacks >= 1 /\ sourceUserId \in users)

DeletedNoRow ==
    \E i \in 1..Len(hist.stmts) :
        hist.stmts[i].op = "DELETE" /\ hist.stmts[i].affected = 0

\* C13: in an Execute-mode removal run a DELETE that affects no row is an error:
\* commit is never invoked, the result never reports removed = true, and the run
\* ends in error with rollback invoked on its transaction.
C13_EmptyDeleteIsAnError ==
    (run = "removal" /\ ~dryRun /\ DeletedNoRow) =>
        /\ hist.commits = 0
        /\ ~removal.removed
        /\ outcome # "success"
        /\ pc = "done" => (outcome = "error" /\ hist.rollbacks >= 1)

C13_Witness ==
    /\ RemovalEnded
    /\ ~dryRun
    /\ DeletedNoRow
    /\ sourceUserId \in backup
    /\ tx = "rolledback"

\* C14: in Execute mode, with no row referencing the source in any binding, the
\* source entity row present and no statement failing, the removal run passes
\* the safety check, writes the snapshot, deletes exactly one row, confirms the
\* absence, commits and returns removed = true with verification success; the
\* entity row is gone afterwards.
C14_CleanRemovalSucceeds ==
    (RemovalEnded /\ ~dryRun /\ hist.failed = {}
        /\ \A c \in Cols : CountRows(hist.preRefs, c, sourceUserId) = 0
        /\ sourceUserId \in hist.preUsers) =>
        /\ safety.isSafe
        /\ sourceUserId \in backup
        /\ \E i \in 1..Len(hist.stmts) :
               hist.stmts[i].op = "DELETE" /\ hist.stmts[i].affected = 1
        /\ removal.removed /\ removal.affectedRows = 1
        /\ rverify.ran /\ rverify.success
        /\ hist.commits = 1 /\ tx = "committed"
        /\ outcome = "success"
        /\ sourceUserId \notin users

C14_Witness ==
    /\ RemovalEnded
    /\ ~dryRun
    /\ hist.failed = {}
    /\ sourceUserId \in hist.preUsers
    /\ removal.removed
    /\ outcome = "success"
    /\ tx = "committed"

\* C15: if the source entity row is absent when the removal run reaches its
\* backup step, the step fails with the not-found error, no snapshot is written,
\* no transaction is begun, no DELETE is executed and the run ends in error.
C15_AbsentEntityStopsRemoval ==
    (run = "removal" /\ hist.backupSaw = "absent") =>
        /\ err = "NotFound_backup" \/ "save" \in hist.failed
        /\ backup = {}
        /\ hist.begins = 0
        /\ conn = "none"
        /\ ~Executed("DELETE")
        /\ outcome # "success"
        /\ pc = "done" => outcome = "error"

C15_Witness ==
    /\ RemovalEnded
    /\ hist.backupSaw = "absent"
    /\ safety.isSafe
    /\ outcome = "error"

\* C20: a Simulate-mode removal run that passed the safety check executes no
\* DELETE, begins no transaction, never commits or rolls back, reports
\* removed = false and leaves the source entity row in place.
C20_SimulatedRemovalChangesNothing ==
    (run = "removal" /\ dryRun /\ safety.isSafe) =>
        /\ hist.stmts = <<>>
        /\ hist.begins = 0 /\ tx = "none"
        /\ hist.commits = 0
        /\ hist.rollbacks = 0
        /\ ~removal.removed
        /\ users = hist.preUsers

C20_Witness ==
    /\ RemovalEnded
    /\ dryRun
    /\ safety.isSafe
    /\ removal.simulated
    /\ rverify.ran
    /\ sourceUserId \in users

\* C16: a migration run started while the source or the target entity row is
\* missing ends in error without acquiring a connection, beginning a
\* transaction or executing any UPDATE, in both modes; when the existence
\* reads themselves succeed the error is the not-found error.
C16_MissingEntityStopsMigration ==
    (MigrationEnded /\ ~({sourceUserId, target} \subseteq hist.preUsers)) =>
        /\ outcome = "error"
        /\ conn = "none"
        /\ hist.begins = 0
        /\ hist.releases = 0
        /\ hist.stmts = <<>>
        /\ refs = hist.preRefs
        /\ hist.failed = {} => err \in {"NotFound_source", "NotFound_target"}

C16_Witness ==
    /\ MigrationEnded
    /\ ~dryRun
    /\ sourceUserId \in hist.preUsers
    /\ target \notin hist.preUsers
    /\ err = "NotFound_target"
    /\ outcome = "error"

\* C17: a migration run whose source id equals its target id is not attempted:
\* it executes no statement and ends in error.
C17_SameIdsNotAttempted ==
    (MigrationEnded /\ target = sourceUserId) =>
        /\ outcome = "error"
        /\ hist.stmts = <<>>
        /\ hist.begins = 0

\* C19: every migration or removal run that ends in error has recorded an
\* error-level log entry and has invoked the log save at least once.
C19_ErrorRunsLogAndSave ==
    (pc = "done" /\ outcome = "error") =>
        /\ saves >= 1
        /\ \E i \in 1..Len(log) : log[i] = "error"

C19_Witness ==
    /\ RemovalEnded
    /\ outcome = "error"
    /\ ~safety.isSafe
    /\ saves = 1

\* C18: validateMigrationTables raises exactly when the table or the column of
\* some configured binding is absent, a failed metadata query counting as
\* absent; when it returns, every binding is reported with tableExists,
\* columnExists and valid all true; and it never modifies data.
C18_ValidationRaisesIffAbsent ==
    (run = "validation" /\ validation.ran) =>
        /\ validation.raised <=> hist.absent # {}
        /\ ~validation.raised =>
               \A t \in CfgTableSet :
                   /\ validation.results[t].tableExists
                   /\ validation.results[t].columnExists
                   /\ validation.results[t].valid
        /\ refs = hist.preRefs
        /\ users = hist.preUsers

C18_Witness ==
    /\ run = "validation"
    /\ validation.ran
    /\ validation.raised
    /\ schema.tables = CfgTableSet
    /\ schema.columns # CfgBindings
    /\ validation.tableValidation = [t \in CfgTableSet |-> TRUE]

\* C21: the verification operations (verifyMigration, verifySafeToRemove in
\* both versions) only read: the rows of every table after a verification step
\* are the rows before it, and the source entity row is neither deleted nor
\* changed by it.
C21_VerifiersOnlyRead ==
    [][(VerifyMigration \/ VerifySafeToRemove \/ VerifySafeToRemoveScan) =>
           (refs' = refs /\ users' = users)]_vars

C21_Witness ==
    /\ MigrationEnded
    /\ ~dryRun
    /\ verification > 0
    /\ sourceUserId \in users
    /\ outcome = "success"

BindingMissing == \E b \in CfgBindings : b \notin schema.columns

\* C22: a migration run never begins a transaction and never executes a rewrite
\* statement when the table or the reference column of some configured binding
\* does not exist in the schema; the run ends in error.
C22_InvalidBindingStopsMigration ==
    (run = "migration" /\ BindingMissing) =>
        /\ hist.begins = 0
        /\ ~Executed("UPDATE")
        /\ pc = "done" => outcome = "error"

\* C23: in a migration run the verifier's reads are issued strictly after the
\* transaction has been committed: verification never starts while a
\* transaction begun by executeMigration is still open.
C23_VerificationAfterCommit ==
    (run = "migration" /\ pc = "m_verify") => tx # "open"

TableIndex(t) == CHOOSE i \in 1..Len(Tables) : Tables[i] = t

\* C24: when the rewrite of a binding fails in a migration run, no statement of
\* a later binding is executed, commit is never invoked, and the error that
\* reaches the caller of run() is the error the failing statement raised.
C24_RewriteFailurePropagatesUnchanged ==
    (MigrationEnded /\ "rewrite" \in hist.failed) =>
        /\ \A i \in 1..Len(hist.stmts) : TableIndex(hist.stmts[i].table) < idx
        /\ hist.commits = 0
        /\ outcome = "error"
        /\ err = "QueryError"

\* C25: if the pre-migration count query of a binding fails during a migration
\* run, the failure is surfaced to the caller: the run does not complete as a
\* success with that binding left out of the rewrite.
C25_CountFailureIsSurfaced ==
    (MigrationEnded /\ "precount" \in hist.failed) => outcome # "success"

SourceFree(r, C) == \A c \in C : CountRows(r, c, sourceUserId) = 0

\* C26: after an Execute-mode migration over the schema-discovered tables that
\* completed without error (no statement of the run having failed), no column
\* returned by findTablesWithUserId holds the source id in any row, also when a
\* table has more than one such column.
C26_NoDiscoveredColumnKeepsSource ==
    (MigrationEnded /\ ~dryRun /\ outcome = "success" /\ hist.failed = {}) =>
        SourceFree(refs, Discovered)

\* C27: whenever the schema-scan version of verifySafeToRemove reports
\* isSafe = true, no column discovered by the scan holds the source id in any
\* row, so the removal that follows never deletes the entity while a
\* discovered reference to it remains.
C27_SafeMeansNoDiscoveredReference ==
    (run = "removal" /\ variant = "scan" /\ safety.isSafe /\ hist.failed = {}) =>
        SourceFree(refs, Discovered)

\* C28: within one migration run the bindings are processed one at a time in the
\* order the table map supplies them: the statements migrateTable issues form
\* one sequence in which the statements of binding i all come before any
\* statement of binding i+1.
C28_BindingsInOrder ==
    run = "migration" =>
        \A i, j \in 1..Len(hist.issued) :
            i < j => TableIndex(hist.issued[i].table) <= TableIndex(hist.issued[j].table)

C28_Witness ==
    /\ MigrationEnded
    /\ ~dryRun
    /\ Len(hist.stmts) = Len(Tables)
    /\ \A i \in 1..Len(Tables) : hist.stmts[i].table = Tables[i]
    /\ Len(hist.issued) = 3 * Len(Tables)

ZeroBefore(t) ==
    UserIdColumn(t) # NoColumn /\ CountRows(hist.preRefs, <<t, UserIdColumn(t)>>, sourceUserId) = 0

Rewritten(t) == \E i \in 1..Len(hist.stmts) : hist.stmts[i].op = "UPDATE" /\ hist.stmts[i].table = t

\* C29: in a migration run that completed without any failure, every binding
\* whose pre-migration count of rows referencing the source is zero is recorded
\* in the per-table results as skipped, with migrated count 0, and no rewrite
\* statement is executed for it.
C29_ZeroCountRecordedAsSkipped ==
    (MigrationEnded /\ outcome = "success" /\ hist.failed = {}) =>
        \A t \in TableSet :
            ZeroBefore(t) => (results[t] # NoResult /\ results[t].migrated = 0 /\ ~Rewritten(t))

\* C30: in a Simulate-mode migration run no transaction is begun, committed or
\* rolled back; when the run completes, each binding with a nonzero
\* pre-migration count is reported with migrated = 0 and skipped equal to that
\* count, and totalMigrated is 0.
C30_SimulateReportsSkipped ==
    (run = "migration" /\ dryRun) =>
        /\ hist.begins = 0 /\ hist.commits = 0 /\ hist.rollbacks = 0 /\ tx = "none"
        /\ totalMigrated = 0
        /\ (pc = "done" /\ outcome = "success") =>
               \A t \in TableSet :
                   (UserIdColumn(t) # NoColumn /\ ~ZeroBefore(t)) =>
                       results[t] = [migrated |-> 0,
                                     skipped |-> CountRows(hist.preRefs, <<t, UserIdColumn(t)>>,
                                                           sourceUserId)]

RECURSIVE SumMigrated(_, _)
\* totalMigrated += result.migrated, over the tables that have a result
SumMigrated(res, T) ==
    IF T = {} THEN 0
    ELSE LET t == CHOOSE x \in T : TRUE
         IN (IF res[t] = NoResult THEN 0 ELSE res[t].migrated) + SumMigrated(res, T \ {t})

CountDiffers ==
    \E i \in 1..Len(hist.stmts) :
        hist.stmts[i].op = "UPDATE" /\ hist.stmts[i].affected # hist.stmts[i].counted

\* C31: for every rewritten binding the reported migrated count is the
\* affected-row count of that binding's UPDATE, not the pre-count; totalMigrated
\* is the sum of the per-table migrated counts; and a difference between a
\* binding's pre-count and its affected-row count never makes the run fail.
C31_MigratedIsAffectedRows ==
    run = "migration" =>
        /\ \A i \in 1..Len(hist.stmts) :
               hist.stmts[i].op = "UPDATE" =>
                   results[hist.stmts[i].table].migrated = hist.stmts[i].affected
        /\ totalMigrated = SumMigrated(results, TableSet)
        /\ (pc = "done" /\ CountDiffers /\ hist.failed = {}) => outcome = "success"

C31_Witness ==
    /\ MigrationEnded
    /\ ~dryRun
    /\ CountDiffers
    /\ hist.failed = {}
    /\ totalMigrated > 0
    /\ outcome = "success"

\* C34: the run log of a migration or removal run is append-only for the
\* duration of the run: every step of a run only adds entries at the end, no
\* entry is removed, changed or reordered, and every entry's level is one of
\* info, warning, success, error.
C34_LogIsAppendOnly ==
    [][(runs' = runs /\ run \in {"migration", "removal"}) =>
           /\ IsPrefix(log, log')
           /\ \A i \in 1..Len(log') : log'[i] \in Levels]_vars

C34_Witness ==
    /\ MigrationEnded
    /\ outcome = "error"
    /\ Levels \subseteq {log[i] : i \in 1..Len(log)}

\* C35: in every migration run and every removal run a connection obtained
\* from the pool is released exactly once before the run settles, on the
\* success path, on every error path and in Simulate mode, and release is never
\* called when no connection was obtained.
C35_ConnectionReleasedOnce ==
    run \in {"migration", "removal"} =>
        /\ conn \in {"none", "held"} => hist.releases = 0
        /\ conn = "released" => hist.releases = 1
        /\ pc = "done" => conn # "held"

C35_Witness ==
    /\ RemovalEnded
    /\ dryRun
    /\ conn = "released"
    /\ hist.releases = 1
    /\ outcome = "success"

\* C38: on an Execute-mode migration run that fails during a binding's rewrite,
\* rollback is invoked exactly once on the run's connection before the
\* connection is released.
C38_RollbackInvokedOnce ==
    (run = "migration" /\ ~dryRun /\ "rewrite" \in hist.failed /\ conn = "released") =>
        hist.rollbacks = 1

\* C32: binding validation judges each binding by its own (table, column) pair:
\* for every configured binding list, lists in which two bindings name the same
\* table with different columns included, validateMigrationTables raises
\* whenever the column of any single binding does not exist.
C32_EachBindingJudgedByItsOwnPair ==
    (run = "validation" /\ validation.ran
        /\ \E i \in 1..Len(bindings) : bindings[i] \notin schema.columns) =>
        validation.raised

\* C33: in the CLI's complete process the steps run strictly in the order
\* analysis, migration, removal, export: a step is started only after every
\* step before it returned a result (it was neither cancelled nor failed), and
\* a failure or cancellation of a step prevents every later step.
C33_StepsInOrder ==
    /\ Len(cli.steps) <= Len(CLISteps)
    /\ \A i \in 1..Len(cli.steps) :
           /\ cli.steps[i].step = CLISteps[i]
           /\ i < Len(cli.steps) => cli.steps[i].result = "returned"
    /\ cli.pc = "finished" <=>
           (Len(cli.steps) = Len(CLISteps)
               /\ \A i \in 1..Len(cli.steps) : cli.steps[i].result = "returned")
    /\ (\E i \in 1..Len(cli.steps) : cli.steps[i].result # "returned") => cli.pc = "failed"

C33_Witness ==
    /\ cli.pc = "failed"
    /\ Len(cli.steps) = 3
    /\ cli.steps[2].result = "returned"
    /\ cli.steps[3] = [step |-> "removal", result |-> "cancelled"]

\* C36: executeMysqldump resolves only if mysqldump exited with code 0, in
\* compressed and uncompressed mode alike: a resolved promise means mysqldump's
\* exit code was 0, so a nonzero exit never ends in a resolved promise.
C36_ResolvesOnlyOnMysqldumpSuccess ==
    dump.promise = "resolved" => dump.code = 0

\* C37: runAllTests runs its five tests in the fixed order dependencies,
\* configuration, connection, analysis, users and stops at the first failing
\* test: when it has returned, testResults holds one entry per executed test, in
\* that order, only the last entry can be FAILED, success is true exactly when
\* all five tests passed, totalTests is the number of executed tests and
\* passedTests the number of PASSED entries.
C37_SuiteStopsAtFirstFailure ==
    tester.pc = "returned" =>
        LET n == Len(tester.testResults)
            allPassed == \A i \in 1..n : tester.testResults[i].status = "PASSED"
        IN  /\ n \in 1..Len(TestNames)
            /\ \A i \in 1..n : tester.testResults[i].name = TestNames[i]
            /\ \A i \in 1..(n - 1) : tester.testResults[i].status = "PASSED"
            /\ tester.returned.success <=> (n = Len(TestNames) /\ allPassed)
            /\ ~allPassed => tester.returned.success = FALSE
            /\ tester.returned.totalTests = n
            /\ tester.returned.passedTests = IF allPassed THEN n ELSE n - 1

C37_Witness ==
    /\ tester.pc = "returned"
    /\ Len(tester.testResults) = 3
    /\ tester.testResults[3] = [name |-> "testDatabaseConnection", status |-> "FAILED"]
    /\ tester.returned = [success |-> FALSE, passedTests |-> 2, totalTests |-> 3]

====
